---- MODULE Spec2Model ----
(***************************************************************************)
(* Model of Reservator (src/main.py): the recurrence calculation of        *)
(* BackupTask.calculate_next_run, the scheduler threads started by         *)
(* BackupApp.__init__, the backup threads started by BackupApp.run_task,   *)
(* the registry operations of the window (add, edit, delete), quit_app,    *)
(* the status line of update_status, the save and load of tasks.json and   *)
(* the file work of one backup.                                            *)
(***************************************************************************)
EXTENDS Integers, Sequences, FiniteSets, TLC

(***************************************************************************)
(* datetime / timedelta / calendar, as far as main.py uses them.           *)
(* A datetime is a record of its seven fields.  Linear time counts from    *)
(* 2024-01-01T00:00:00, a Monday.                                          *)
(***************************************************************************)
datetime(y, mo, d, h, mi, s, us) ==
    [year |-> y, month |-> mo, day |-> d, hour |-> h, minute |-> mi,
     second |-> s, microsecond |-> us]

IsLeap(y) == (y % 4 = 0 /\ y % 100 # 0) \/ y % 400 = 0

\* calendar.monthrange(year, month)[1]
monthrange(y, mo) ==
    IF mo = 2 THEN (IF IsLeap(y) THEN 29 ELSE 28)
    ELSE IF mo \in {4, 6, 9, 11} THEN 30 ELSE 31

DaysInYear(y) == IF IsLeap(y) THEN 366 ELSE 365

RECURSIVE DaysBeforeYear(_)
DaysBeforeYear(y) ==
    IF y <= 2024 THEN 0 ELSE DaysBeforeYear(y - 1) + DaysInYear(y - 1)

RECURSIVE DaysBeforeMonth(_, _)
DaysBeforeMonth(y, mo) ==
    IF mo <= 1 THEN 0 ELSE DaysBeforeMonth(y, mo - 1) + monthrange(y, mo - 1)

\* days since 2024-01-01
toordinal(dt) == DaysBeforeYear(dt.year) + DaysBeforeMonth(dt.year, dt.month) + dt.day - 1

\* datetime.weekday(): Monday is 0
weekday(dt) == toordinal(dt) % 7

\* whole seconds since 2024-01-01T00:00:00
total_seconds(dt) == ((toordinal(dt) * 24 + dt.hour) * 60 + dt.minute) * 60 + dt.second

RECURSIVE YearOfDay(_, _)
YearOfDay(days, y) ==
    IF days < DaysInYear(y) THEN y ELSE YearOfDay(days - DaysInYear(y), y + 1)

RECURSIVE MonthOfDay(_, _, _)
MonthOfDay(days, y, mo) ==
    IF days < monthrange(y, mo) THEN mo ELSE MonthOfDay(days - monthrange(y, mo), y, mo + 1)

\* the datetime that lies secs whole seconds after 2024-01-01T00:00:00
fromseconds(secs, us) ==
    LET days == secs \div 86400
        rest == secs % 86400
        y    == YearOfDay(days, 2024)
        dy   == days - DaysBeforeYear(y)
        mo   == MonthOfDay(dy, y, 1)
    IN  datetime(y, mo, dy - DaysBeforeMonth(y, mo) + 1,
                 rest \div 3600, (rest % 3600) \div 60, rest % 60, us)

\* dt + timedelta(seconds = secs)
plus(dt, secs) == fromseconds(total_seconds(dt) + secs, dt.microsecond)

\* a <= b, a < b on datetimes
le(a, b) ==
    \/ total_seconds(a) < total_seconds(b)
    \/ total_seconds(a) = total_seconds(b) /\ a.microsecond <= b.microsecond

lt(a, b) == le(a, b) /\ a # b

\* the arguments datetime(...) and datetime.replace(...) accept
ValidFields(y, mo, d, h, mi) ==
    /\ mo \in 1..12
    /\ d >= 1 /\ d <= monthrange(y, mo)
    /\ h \in 0..23
    /\ mi \in 0..59

(***************************************************************************)
(* A Python call either returns a value or raises.                         *)
(***************************************************************************)
None == datetime(0, 0, 0, 0, 0, 0, 0)

Returns(v) == [raised |-> FALSE, value |-> v]

Raises == [raised |-> TRUE, value |-> None]

(***************************************************************************)
(* time_params: an int for hourly, a tuple for the other kinds.  scalar    *)
(* tells the two apart; vals holds the int or the tuple's items.           *)
(***************************************************************************)
IntParam(n) == [scalar |-> TRUE, vals |-> <<n>>]

TupleParam(t) == [scalar |-> FALSE, vals |-> t]

\* a list, as json.load builds it; it unpacks and indexes like the tuple
ListParam(t) == [scalar |-> FALSE, vals |-> t, list |-> TRUE]

(***************************************************************************)
(* BackupTask.calculate_next_run (lines 46-94).  The four branches return  *)
(* a value or raise; the outer except turns a raise into now + 5 minutes.  *)
(***************************************************************************)
HOUR == 3600

DAY == 86400

\* now.replace(hour=h, minute=mi, second=0, microsecond=0); h = now.hour for hourly
replace(now, h, mi) ==
    IF ValidFields(now.year, now.month, now.day, h, mi)
    THEN Returns([now EXCEPT !.hour = h, !.minute = mi, !.second = 0, !.microsecond = 0])
    ELSE Raises

\* hourly with the period of daily: a slip of the timedelta
hourly_adds_day(time_params, now) ==
    IF ~time_params.scalar THEN Raises
    ELSE LET r == replace(now, now.hour, time_params.vals[1])
         IN  IF r.raised THEN Raises
             ELSE IF le(r.value, now) THEN Returns(plus(r.value, DAY))
             ELSE r

\* lines 49-54
hourly(time_params, now) ==
    IF ~time_params.scalar THEN Raises
    ELSE LET r == replace(now, now.hour, time_params.vals[1])
         IN  IF r.raised THEN Raises
             ELSE IF le(r.value, now) THEN Returns(plus(r.value, HOUR))
             ELSE r

\* daily with < for <=: a candidate equal to now is returned as it is
daily_strict(time_params, now) ==
    IF time_params.scalar \/ Len(time_params.vals) # 2 THEN Raises
    ELSE LET r == replace(now, time_params.vals[1], time_params.vals[2])
         IN  IF r.raised THEN Raises
             ELSE IF lt(r.value, now) THEN Returns(plus(r.value, DAY))
             ELSE r

\* lines 56-62
daily(time_params, now) ==
    IF time_params.scalar \/ Len(time_params.vals) # 2 THEN Raises
    ELSE LET r == replace(now, time_params.vals[1], time_params.vals[2])
         IN  IF r.raised THEN Raises
             ELSE IF le(r.value, now) THEN Returns(plus(r.value, DAY))
             ELSE r

\* lines 64-71
weekly(time_params, now) ==
    IF time_params.scalar \/ Len(time_params.vals) # 3 THEN Raises
    ELSE LET days_ahead == (time_params.vals[1] - weekday(now)) % 7
             r == replace(now, time_params.vals[2], time_params.vals[3])
         IN  IF r.raised THEN Raises
             ELSE LET next_run == plus(r.value, days_ahead * DAY)
                  IN  IF le(next_run, now) THEN Returns(plus(next_run, 7 * DAY))
                      ELSE Returns(next_run)

\* monthly_candidate clamping to the length of now's month, not the next one's
monthly_candidate_this_month(time_params, now) ==
    IF time_params.scalar \/ Len(time_params.vals) # 3 THEN Raises
    ELSE LET day == time_params.vals[1]
             hour == time_params.vals[2]
             minute == time_params.vals[3]
             next_month == IF now.month + 1 > 12 THEN 1 ELSE now.month + 1
             next_year == IF now.month + 1 > 12 THEN now.year + 1 ELSE now.year
             last_day == monthrange(now.year, now.month)
         IN  IF ValidFields(next_year, next_month, day, hour, minute)
             THEN Returns(datetime(next_year, next_month, day, hour, minute, 0, 0))
             ELSE IF ValidFields(next_year, next_month, last_day, hour, minute)
             THEN Returns(datetime(next_year, next_month, last_day, hour, minute, 0, 0))
             ELSE Raises

\* lines 75-86: the candidate in the month after now's month
monthly_candidate(time_params, now) ==
    IF time_params.scalar \/ Len(time_params.vals) # 3 THEN Raises
    ELSE LET day == time_params.vals[1]
             hour == time_params.vals[2]
             minute == time_params.vals[3]
             next_month == IF now.month + 1 > 12 THEN 1 ELSE now.month + 1
             next_year == IF now.month + 1 > 12 THEN now.year + 1 ELSE now.year
             last_day == monthrange(next_year, next_month)
         IN  IF ValidFields(next_year, next_month, day, hour, minute)
             THEN Returns(datetime(next_year, next_month, day, hour, minute, 0, 0))
             ELSE IF ValidFields(next_year, next_month, last_day, hour, minute)
             THEN Returns(datetime(next_year, next_month, last_day, hour, minute, 0, 0))
             ELSE Raises

RECURSIVE calculate_next_run(_, _)
calculate_next_run(task, now) ==
    LET r == IF task.frequency = "hourly" THEN hourly(task.time_params, now)
             ELSE IF task.frequency = "daily" THEN daily(task.time_params, now)
             ELSE IF task.frequency = "weekly" THEN weekly(task.time_params, now)
             ELSE IF task.frequency = "monthly"
             THEN LET c == monthly_candidate(task.time_params, now)
                  IN  IF c.raised THEN Raises
                      ELSE IF lt(now, c.value) THEN c
                      ELSE Returns(calculate_next_run(task, plus(now, DAY)))
             ELSE Returns(now)
    IN  IF r.raised THEN plus(now, 5 * 60) ELSE r.value

(***************************************************************************)
(* BackupTask (lines 35-105) and the due check and claim of a scheduler    *)
(* tick (lines 171-174).                                                   *)
(***************************************************************************)
\* BackupTask.__init__ at wall-clock time now; fields is what the caller passes
BackupTask(fields, now) ==
    [name |-> fields.name, source |-> fields.source,
     destination |-> fields.destination, compression |-> fields.compression,
     frequency |-> fields.frequency, time_params |-> fields.time_params,
     last_run |-> None,
     next_run |-> calculate_next_run(fields, now)]

\* datetime.isoformat(): the fields in the order the text spells them; the
\* microseconds are spelled only when they are not 0
isoformat(dt) ==
    IF dt.microsecond = 0
    THEN <<dt.year, dt.month, dt.day, dt.hour, dt.minute, dt.second>>
    ELSE <<dt.year, dt.month, dt.day, dt.hour, dt.minute, dt.second, dt.microsecond>>

\* datetime.fromisoformat() of such a text
fromisoformat(text) ==
    datetime(text[1], text[2], text[3], text[4], text[5], text[6],
             IF Len(text) = 7 THEN text[7] ELSE 0)

\* BackupTask.to_dict: next_run is not part of the record
to_dict(task) ==
    [name |-> task.name, source |-> task.source,
     destination |-> task.destination, compression |-> task.compression,
     frequency |-> task.frequency, time_params |-> task.time_params,
     last_run |-> IF task.last_run = None THEN <<>> ELSE isoformat(task.last_run)]

\* json.dump of time_params: an int is a number, a tuple or a list an array
json_dump(p) == IF p.scalar THEN <<"number", p.vals[1]>> ELSE <<"array", p.vals>>

\* json.load of it: a number is an int, an array a list
json_load(j) == IF j[1] = "number" THEN IntParam(j[2]) ELSE ListParam(j[2])

\* a load_tasks that leaves last_run as the constructor set it
load_task_drops_last_run(item, now) ==
    LET task == BackupTask([item EXCEPT !.time_params = json_load(@)], now)
    IN  [task EXCEPT !.next_run = calculate_next_run(task, now)]

\* lines 453-463: the BackupTask load_tasks appends for one record
load_task(item, now) ==
    LET task == BackupTask([item EXCEPT !.time_params = json_load(@)], now)
    IN  [task EXCEPT !.last_run = IF item.last_run = <<>> THEN None
                                  ELSE fromisoformat(item.last_run),
                     !.next_run = calculate_next_run(task, now)]

\* load_tasks (lines 449-466) of the records data into an empty registry
load_tasks(data, now) == [k \in 1..Len(data) |-> load_task(data[k], now)]

\* line 171: task.next_run <= now
IsDue(task, now) == le(task.next_run, now)

\* a claim that sets last_run and leaves next_run as it was
Claim_keeps_next_run(task, now, wall) ==
    [task EXCEPT !.last_run = now]

\* lines 173-174: the claim; wall is the clock calculate_next_run() reads
Claim(task, now, wall) ==
    [task EXCEPT !.last_run = now, !.next_run = calculate_next_run(task, wall)]

(***************************************************************************)
(* update_status (lines 227-259): what the window shows, derived from the  *)
(* registry, running_tasks and the wall clock.  A status is named by the   *)
(* colour of its label: "orange" is "Выполняется резервное копирование...",*)
(* "red" is "Нет активных задач", "green" is "Работает в фоне".            *)
(***************************************************************************)

\* lines 229-230: min of the next_run of the tasks; None for an empty list
nearest(reg) ==
    IF reg = <<>> THEN None
    ELSE LET runs == {reg[k].next_run : k \in 1..Len(reg)}
         IN  CHOOSE m \in runs : \A r \in runs : le(m, r)

\* lines 233-241
status_text(reg, running) ==
    IF running > 0 THEN "orange"
    ELSE IF reg = <<>> THEN "red"
    ELSE "green"

\* a - b of two datetimes as timedelta normalises it: days, seconds in
\* 0..86399, microseconds in 0..999999
timedelta(a, b) ==
    LET us    == a.microsecond - b.microsecond
        whole == total_seconds(a) - total_seconds(b) - (IF us < 0 THEN 1 ELSE 0)
    IN  [days |-> whole \div DAY, seconds |-> whole % DAY, microseconds |-> us % 1000000]

\* timedelta.total_seconds() > 0
positive(delta) ==
    delta.days > 0 \/ (delta.days = 0 /\ (delta.seconds > 0 \/ delta.microseconds > 0))

\* lines 250-252: divmod(delta.seconds, 3600), remainder // 60
countdown(delta) ==
    [text |-> "in", hours |-> delta.seconds \div HOUR,
     minutes |-> (delta.seconds % HOUR) \div 60]

\* lines 247-256
next_task_text(reg, now) ==
    IF nearest(reg) # None
    THEN LET delta == timedelta(nearest(reg), now)
         IN  IF positive(delta) THEN countdown(delta)
             ELSE [text |-> "now", hours |-> 0, minutes |-> 0]
    ELSE [text |-> "none", hours |-> 0, minutes |-> 0]

\* lines 227-258: what status_var and next_task_var are set to
update_status(reg, running, now) ==
    [status_var |-> status_text(reg, running), next_task_var |-> next_task_text(reg, now)]

(***************************************************************************)
(* The running program.                                                    *)
(***************************************************************************)
VARIABLES
    clock,          \* datetime.now()
    tasks,          \* BackupApp.tasks: a list of references to BackupTask objects
    objs,           \* the BackupTask objects ever constructed, by reference
    sched,          \* the locals of each scheduler_loop thread
    backups,        \* the backup threads run_task started that have not ended
    running_tasks,  \* BackupApp.running_tasks
    tasks_json,     \* the content of tasks.json
    claim_log,      \* history: the <<task, next_run>> some tick appended to tasks_to_run
    reclaimed,      \* history: those of claim_log that were appended more than once
    scheduler_running,  \* BackupApp.scheduler_running
    log             \* backup.log: the distinct error lines written so far

mainVars == <<clock, tasks, objs, sched, backups, running_tasks, tasks_json,
              claim_log, reclaimed, scheduler_running, log>>

\* the two threads BackupApp.__init__ starts on scheduler_loop
Threads == {"Thread-1", "SchedulerThread"}

\* bounds of the exploration
MaxObjs == 2

\* time.sleep(5) of a tick that ended normally
SleepSeconds == 5

\* time.sleep(10) of a tick that ended in the except clause
BackoffSeconds == 10

\* how many ticks raise in one run
MaxTickErrors == 1

\* the directories os.makedirs (line 376) can create a folder in
WritableDirs == {"/dst"}

\* the source directories that exist
SourceDirs == {"/src"}

StartTime == datetime(2024, 1, 1, 10, 29, 55, 0)

\* the instants at which the program is observed: before the first due time,
\* at it, and at the next hour's due time
Timeline ==
    <<StartTime, datetime(2024, 1, 1, 10, 30, 0, 0), datetime(2024, 1, 1, 11, 30, 0, 0)>>

\* the task tasks.json holds when the program starts
LoadedDef ==
    [name |-> "a", source |-> "/src", destination |-> "/dst", compression |-> TRUE,
     frequency |-> "hourly", time_params |-> IntParam(30)]

\* what a confirmed task dialog hands to BackupTask
DialogDefs ==
    { [name |-> "b", source |-> "/gone", destination |-> "/dst", compression |-> FALSE,
       frequency |-> "daily", time_params |-> TupleParam(<<10, 30>>)] }

\* save_tasks (lines 468-471) of registry reg over objects heap
save_tasks(reg, heap) ==
    [k \in 1..Len(reg) |-> [to_dict(heap[reg[k]]) EXCEPT !.time_params = json_dump(@)]]

IdleThread(wake) ==
    [pc |-> "sleep", now |-> None, snapshot |-> <<>>, i |-> 0,
     tasks_to_run |-> <<>>, j |-> 0, wake |-> wake]

MainInit ==
    /\ clock = StartTime
    /\ objs = <<BackupTask(LoadedDef, StartTime)>>
    /\ tasks = <<1>>
    /\ sched = [s \in Threads |-> IdleThread(StartTime)]
    /\ backups = {}
    /\ running_tasks = 0
    /\ tasks_json = save_tasks(<<1>>, <<BackupTask(LoadedDef, StartTime)>>)
    /\ claim_log = {}
    /\ reclaimed = {}
    /\ scheduler_running = TRUE
    /\ log = {}

\* the wall clock moves on to the next instant of the timeline
AdvanceClock ==
    /\ \E k \in 1..(Len(Timeline) - 1) : clock = Timeline[k] /\ clock' = Timeline[k + 1]
    /\ UNCHANGED <<tasks, objs, sched, backups, running_tasks, tasks_json,
                   claim_log, reclaimed,
                   scheduler_running, log>>

\* where a tick goes once entry r.i of the snapshot is next (lines 170, 177, 181)
Continue(r) ==
    IF r.i <= Len(r.snapshot) THEN [r EXCEPT !.pc = "check"]
    ELSE IF r.tasks_to_run # <<>> THEN [r EXCEPT !.pc = "dispatch", !.j = 1]
    ELSE IdleThread(plus(clock, SleepSeconds))

\* the thread is in time.sleep: line 181 ("sleep") or line 185 ("backoff")
Asleep(s) == sched[s].pc \in {"sleep", "backoff"}

\* a loop that is "while True": the tick starts whatever scheduler_running is
TickStart_ignores_flag(s) ==
    /\ Asleep(s)
    /\ le(sched[s].wake, clock)
    /\ sched' = [sched EXCEPT ![s] =
                   Continue([@ EXCEPT !.now = clock, !.snapshot = tasks, !.i = 1,
                                      !.tasks_to_run = <<>>, !.j = 0])]
    /\ UNCHANGED <<clock, tasks, objs, backups, running_tasks, tasks_json,
                   claim_log, reclaimed,
                   scheduler_running, log>>

\* lines 162-170: the sleep is over and the while test finds scheduler_running
\* set; now, tasks_to_run, a fresh Lock, the copy
TickStart(s) ==
    /\ Asleep(s)
    /\ le(sched[s].wake, clock)
    /\ scheduler_running
    /\ sched' = [sched EXCEPT ![s] =
                   Continue([@ EXCEPT !.now = clock, !.snapshot = tasks, !.i = 1,
                                      !.tasks_to_run = <<>>, !.j = 0])]
    /\ UNCHANGED <<clock, tasks, objs, backups, running_tasks, tasks_json,
                   claim_log, reclaimed,
                   scheduler_running, log>>

\* a due check that starts the backup at once, before the claim, the way
\* check_scheduled_tasks (lines 353-357) does
Check_runs_first(s) ==
    LET r == sched[s]
        t == r.snapshot[r.i]
    IN  /\ r.pc = "check"
        /\ IF IsDue(objs[t], r.now)
           THEN /\ sched' = [sched EXCEPT ![s] =
                               [r EXCEPT !.tasks_to_run = Append(@, t), !.pc = "claim"]]
                /\ claim_log' = claim_log \cup {<<t, objs[t].next_run>>}
                /\ reclaimed' = reclaimed
                /\ backups' = backups \cup {[task |-> t, by |-> s, tick |-> r.now]}
           ELSE /\ sched' = [sched EXCEPT ![s] = Continue([r EXCEPT !.i = @ + 1])]
                /\ UNCHANGED <<claim_log, reclaimed, backups>>
        /\ UNCHANGED <<clock, tasks, objs, running_tasks, tasks_json,
                       scheduler_running, log>>

\* a due check that passes over a task whose backup is still running
Check_skips_running(s) ==
    LET r == sched[s]
        t == r.snapshot[r.i]
    IN  /\ r.pc = "check"
        /\ IF IsDue(objs[t], r.now) /\ ~(\E b \in backups : b.task = t)
           THEN /\ sched' = [sched EXCEPT ![s] =
                               [r EXCEPT !.tasks_to_run = Append(@, t), !.pc = "claim"]]
                /\ claim_log' = claim_log \cup {<<t, objs[t].next_run>>}
                /\ reclaimed' = IF <<t, objs[t].next_run>> \in claim_log
                                THEN reclaimed \cup {<<t, objs[t].next_run>>}
                                ELSE reclaimed
           ELSE /\ sched' = [sched EXCEPT ![s] = Continue([r EXCEPT !.i = @ + 1])]
                /\ UNCHANGED <<claim_log, reclaimed>>
        /\ UNCHANGED <<clock, tasks, objs, backups, running_tasks, tasks_json,
                       scheduler_running, log>>

\* a tick that claims every task of its snapshot, due or not
Check_claims_all(s) ==
    LET r == sched[s]
        t == r.snapshot[r.i]
    IN  /\ r.pc = "check"
        /\ sched' = [sched EXCEPT ![s] =
                       [r EXCEPT !.tasks_to_run = Append(@, t), !.pc = "claim"]]
        /\ claim_log' = claim_log \cup {<<t, objs[t].next_run>>}
        /\ reclaimed' = IF <<t, objs[t].next_run>> \in claim_log
                        THEN reclaimed \cup {<<t, objs[t].next_run>>}
                        ELSE reclaimed
        /\ UNCHANGED <<clock, tasks, objs, backups, running_tasks, tasks_json,
                       scheduler_running, log>>

\* lines 171-172: read task.next_run; a due task is appended to tasks_to_run
Check(s) ==
    LET r == sched[s]
        t == r.snapshot[r.i]
    IN  /\ r.pc = "check"
        /\ IF IsDue(objs[t], r.now)
           THEN /\ sched' = [sched EXCEPT ![s] =
                               [r EXCEPT !.tasks_to_run = Append(@, t), !.pc = "claim"]]
                /\ claim_log' = claim_log \cup {<<t, objs[t].next_run>>}
                /\ reclaimed' = IF <<t, objs[t].next_run>> \in claim_log
                                THEN reclaimed \cup {<<t, objs[t].next_run>>}
                                ELSE reclaimed
           ELSE /\ sched' = [sched EXCEPT ![s] = Continue([r EXCEPT !.i = @ + 1])]
                /\ UNCHANGED <<claim_log, reclaimed>>
        /\ UNCHANGED <<clock, tasks, objs, backups, running_tasks, tasks_json,
                       scheduler_running, log>>

\* lines 173-174: last_run and next_run of the task just appended
ClaimStep(s) ==
    LET r == sched[s]
        t == r.snapshot[r.i]
    IN  /\ r.pc = "claim"
        /\ objs' = [objs EXCEPT ![t] = Claim(@, r.now, clock)]
        /\ sched' = [sched EXCEPT ![s] = Continue([r EXCEPT !.i = @ + 1])]
        /\ UNCHANGED <<clock, tasks, backups, running_tasks, tasks_json,
                       claim_log, reclaimed,
                   scheduler_running, log>>

\* run_task (lines 367-415): a thread on backup() is started, nothing else
run_task(t, s) ==
    backups \cup {[task |-> t, by |-> s, tick |-> sched[s].now]}

\* lines 177-181: one run_task per entry of tasks_to_run, then the sleep
Dispatch(s) ==
    LET r == sched[s]
    IN  /\ r.pc = "dispatch"
        /\ backups' = run_task(r.tasks_to_run[r.j], s)
        /\ sched' = [sched EXCEPT ![s] =
                       IF r.j < Len(r.tasks_to_run) THEN [r EXCEPT !.j = @ + 1]
                       ELSE IdleThread(plus(clock, SleepSeconds))]
        /\ UNCHANGED <<clock, tasks, objs, running_tasks, tasks_json,
                       claim_log, reclaimed,
                   scheduler_running, log>>

\* a scheduler_loop whose try statement is around the while loop: an error
\* ends the thread
DispatchError_ends_loop(s) ==
    LET r == sched[s]
    IN  /\ r.pc = "dispatch"
        /\ Cardinality({l \in log : l[1] = "scheduler"}) < MaxTickErrors
        /\ log' = log \cup {<<"scheduler", s, clock>>}
        /\ sched' = [sched EXCEPT ![s] = [IdleThread(None) EXCEPT !.pc = "exited"]]
        /\ UNCHANGED <<clock, tasks, objs, backups, running_tasks, tasks_json,
                       claim_log, reclaimed, scheduler_running>>

\* lines 177-178 and 183-185: run_task raises (Thread.start() cannot start a
\* thread); the rest of tasks_to_run is dropped, the except clause logs, the
\* line carrying the thread and the time, and sleeps
DispatchError(s) ==
    LET r == sched[s]
    IN  /\ r.pc = "dispatch"
        /\ Cardinality({l \in log : l[1] = "scheduler"}) < MaxTickErrors
        /\ log' = log \cup {<<"scheduler", s, clock>>}
        /\ sched' = [sched EXCEPT ![s] =
                       [IdleThread(plus(clock, BackoffSeconds)) EXCEPT !.pc = "backoff"]]
        /\ UNCHANGED <<clock, tasks, objs, backups, running_tasks, tasks_json,
                       claim_log, reclaimed, scheduler_running>>

\* line 162: the sleep is over and the while test finds scheduler_running
\* cleared; scheduler_loop returns
LoopExit(s) ==
    /\ Asleep(s)
    /\ le(sched[s].wake, clock)
    /\ ~scheduler_running
    /\ sched' = [sched EXCEPT ![s] = [IdleThread(None) EXCEPT !.pc = "exited"]]
    /\ UNCHANGED <<clock, tasks, objs, backups, running_tasks, tasks_json,
                   claim_log, reclaimed, scheduler_running, log>>

\* lines 376, 396-401 and 406-407: os.makedirs raises when the destination
\* cannot be written, copytree raises when the source does not exist (os.walk
\* of such a source yields nothing and the archive is empty); the except
\* clause logs it
Fails(task) ==
    \/ task.destination \notin WritableDirs
    \/ ~task.compression /\ task.source \notin SourceDirs

\* backup(), lines 371-412: the work ends, by success or by the except, which
\* logs; the finally takes a fresh Lock and stores running_tasks one less; the
\* thread ends.  The line logged is kept with the task and the next_run the
\* task has at that moment.
BackupEnd(b) ==
    /\ running_tasks' = running_tasks - 1
    /\ backups' = backups \ {b}
    /\ log' = IF Fails(objs[b.task])
              THEN log \cup {<<"backup", b.task, objs[b.task].next_run>>}
              ELSE log
    /\ UNCHANGED <<clock, tasks, objs, sched, tasks_json, claim_log, reclaimed,
                   scheduler_running>>

\* quit_app (lines 218-225): the flag is cleared and the window destroyed
quit_app ==
    /\ scheduler_running
    /\ scheduler_running' = FALSE
    /\ UNCHANGED <<clock, tasks, objs, sched, backups, running_tasks, tasks_json,
                   claim_log, reclaimed, log>>

\* the window's handlers run while the window exists, that is until quit_app
\* (the only caller of destroy) has cleared scheduler_running

\* add_task (lines 312-318) with a dialog that was confirmed
add_task(def) ==
    /\ scheduler_running
    /\ Len(objs) < MaxObjs
    /\ objs' = Append(objs, BackupTask(def, clock))
    /\ tasks' = Append(tasks, Len(objs) + 1)
    /\ tasks_json' = save_tasks(tasks', objs')
    /\ UNCHANGED <<clock, sched, backups, running_tasks, claim_log, reclaimed,
                   scheduler_running, log>>

\* edit_task (lines 320-332) of the selected row with a dialog that was confirmed
edit_task(index, def) ==
    /\ scheduler_running
    /\ index \in 1..Len(tasks)
    /\ Len(objs) < MaxObjs
    /\ objs' = Append(objs, BackupTask(def, clock))
    /\ tasks' = [tasks EXCEPT ![index] = Len(objs) + 1]
    /\ tasks_json' = save_tasks(tasks', objs')
    /\ UNCHANGED <<clock, sched, backups, running_tasks, claim_log, reclaimed,
                   scheduler_running, log>>

\* delete_task (lines 334-342) of the selected row
delete_task(index) ==
    /\ scheduler_running
    /\ index \in 1..Len(tasks)
    /\ tasks' = [k \in 1..(Len(tasks) - 1) |-> IF k < index THEN tasks[k] ELSE tasks[k + 1]]
    /\ tasks_json' = save_tasks(tasks', objs)
    /\ UNCHANGED <<clock, objs, sched, backups, running_tasks, claim_log, reclaimed,
                   scheduler_running, log>>

(***************************************************************************)
(* calculate_next_run and the due check on their own: a task is built at   *)
(* a reference time, then a tick finds it due and a second tick follows    *)
(* with the same now.                                                      *)
(***************************************************************************)
VARIABLES
    ref,        \* the reference time the task is built at
    subject,    \* the task
    tick_now,   \* now of the due checks
    fired,      \* how many due checks appended the task to tasks_to_run
    phase,      \* "new", "built", "checked", "rechecked", "shown"
    shown,      \* status_var and next_task_var as update_status set them
    shown_at    \* now of that update_status

calcVars == <<ref, subject, tick_now, fired, phase, shown, shown_at>>

(***************************************************************************)
(* A save of the registry followed by a restart of the program, which      *)
(* loads tasks.json into the empty registry of the new process.            *)
(***************************************************************************)
VARIABLES
    restart_at, \* datetime.now() while the new process loads
    reloaded,   \* BackupApp.tasks of the new process
    stage       \* "run", "saved", "reloaded"

storeVars == <<restart_at, reloaded, stage>>

(***************************************************************************)
(* The work of one backup() on a source directory (lines 371-407).         *)
(***************************************************************************)
VARIABLES
    walk,       \* the files os.walk yields, in its order: TRUE for a readable one
    mode,       \* task.compression
    pos,        \* the file the loop is at
    written,    \* the files the archive or the copy holds, by their place in walk
    printed,    \* the files a per-file handler printed a message for
    logged,     \* how many times line 407 logged "Ошибка"
    bphase      \* "work", "ended"

zipVars == <<walk, mode, pos, written, printed, logged, bphase>>

pureVars == <<calcVars, storeVars, zipVars>>

vars == <<mainVars, pureVars>>

CalcIdle ==
    /\ ref = None
    /\ subject = BackupTask(LoadedDef, StartTime)
    /\ tick_now = None
    /\ fired = 0
    /\ phase = "off"
    /\ shown = update_status(<<>>, 0, StartTime)
    /\ shown_at = None

StoreIdle ==
    /\ restart_at = None
    /\ reloaded = <<>>
    /\ stage = "off"

ZipIdle ==
    /\ walk = <<>>
    /\ mode = TRUE
    /\ pos = 0
    /\ written = <<>>
    /\ printed = <<>>
    /\ logged = 0
    /\ bphase = "off"

Init == MainInit /\ CalcIdle /\ StoreIdle /\ ZipIdle

Next ==
    \/ AdvanceClock /\ UNCHANGED pureVars
    \/ \E s \in Threads : TickStart(s) /\ UNCHANGED pureVars
    \/ \E s \in Threads : Check(s) /\ UNCHANGED pureVars
    \/ \E s \in Threads : ClaimStep(s) /\ UNCHANGED pureVars
    \/ \E s \in Threads : Dispatch(s) /\ UNCHANGED pureVars
    \/ \E s \in Threads : DispatchError(s) /\ UNCHANGED pureVars
    \/ \E s \in Threads : LoopExit(s) /\ UNCHANGED pureVars
    \/ \E b \in backups : BackupEnd(b) /\ UNCHANGED pureVars
    \/ quit_app /\ UNCHANGED pureVars
    \/ \E def \in DialogDefs : add_task(def) /\ UNCHANGED pureVars
    \/ \E index \in 1..Len(tasks), def \in DialogDefs : edit_task(index, def) /\ UNCHANGED pureVars
    \/ \E index \in 1..Len(tasks) : delete_task(index) /\ UNCHANGED pureVars

Spec == Init /\ [][Next]_vars

(***************************************************************************)
(* The scheduler threads under fair scheduling, with the window left       *)
(* alone: time passes, and a thread that can take its next step takes it.  *)
(***************************************************************************)

\* between the instants of the timeline the wall clock is followed, one sleep
\* at a time, for as long as a thread sleeps in the except clause or sleeps
\* after quit_app, or every thread sleeps while a task of the registry is due
PassTime ==
    /\ \/ \E s \in Threads :
             /\ Asleep(s)
             /\ lt(clock, sched[s].wake)
             /\ sched[s].pc = "backoff" \/ ~scheduler_running
       \/ /\ \A s \in Threads : Asleep(s) /\ lt(clock, sched[s].wake)
          /\ \E k \in 1..Len(tasks) : IsDue(objs[tasks[k]], clock)
    /\ clock' = plus(clock, SleepSeconds)
    /\ UNCHANGED <<tasks, objs, sched, backups, running_tasks, tasks_json,
                   claim_log, reclaimed, scheduler_running, log>>

\* the steps of scheduler thread s
ThreadStep(s) ==
    /\ TickStart(s) \/ Check(s) \/ ClaimStep(s) \/ Dispatch(s) \/ LoopExit(s)
    /\ UNCHANGED pureVars

\* the steps of the wall clock
ClockStep ==
    /\ AdvanceClock \/ PassTime
    /\ UNCHANGED pureVars

NextLive ==
    \/ AdvanceClock /\ UNCHANGED pureVars
    \/ PassTime /\ UNCHANGED pureVars
    \/ \E s \in Threads : TickStart(s) /\ UNCHANGED pureVars
    \/ \E s \in Threads : Check(s) /\ UNCHANGED pureVars
    \/ \E s \in Threads : ClaimStep(s) /\ UNCHANGED pureVars
    \/ \E s \in Threads : Dispatch(s) /\ UNCHANGED pureVars
    \/ \E s \in Threads : DispatchError(s) /\ UNCHANGED pureVars
    \/ \E s \in Threads : LoopExit(s) /\ UNCHANGED pureVars
    \/ \E b \in backups : BackupEnd(b) /\ UNCHANGED pureVars
    \/ quit_app /\ UNCHANGED pureVars

SpecLive ==
    /\ Init
    /\ [][NextLive]_vars
    /\ WF_vars(ClockStep)
    /\ \A s \in Threads : WF_vars(ThreadStep(s))

\* reference times: a leap year and the start of a common year, short and long
\* months, the year's end; on and off the full minute
RefTimes ==
    { dt \in [year : {2024, 2025}, month : {1, 4, 12}, day : {1, 20, 30, 31},
              hour : {0, 10, 23}, minute : {0, 15, 30}, second : {0, 30},
              microsecond : {0, 1}] :
        /\ dt.day <= monthrange(dt.year, dt.month)
        /\ dt.year = 2025 => dt.month = 1
        /\ dt.microsecond = 1 => dt.second = 0 }

\* time_params in range, per kind
InRange ==
    [hourly  |-> {IntParam(m) : m \in {0, 30, 59}},
     daily   |-> {TupleParam(hm) : hm \in {<<0, 0>>, <<10, 30>>, <<23, 30>>}},
     weekly  |-> {TupleParam(<<w>> \o hm) : w \in {0, 2, 6}, hm \in {<<0, 0>>, <<9, 0>>}},
     monthly |-> {TupleParam(<<d>> \o hm) : d \in {1, 29, 30, 31},
                                            hm \in {<<0, 0>>, <<10, 30>>}}]

\* time_params out of range or of the wrong shape, per kind
Malformed ==
    [hourly  |-> {IntParam(60), IntParam(-1), TupleParam(<<10, 30>>)},
     daily   |-> {TupleParam(<<24, 0>>), TupleParam(<<10, 60>>), IntParam(30),
                  TupleParam(<<2, 9, 0>>)},
     weekly  |-> {TupleParam(<<7, 9, 0>>), TupleParam(<<-1, 9, 0>>),
                  TupleParam(<<2, 24, 0>>), TupleParam(<<9, 0>>)},
     monthly |-> {TupleParam(<<32, 0, 0>>), TupleParam(<<0, 0, 0>>),
                  TupleParam(<<31, 24, 0>>), TupleParam(<<31, 0, 60>>), IntParam(5)}]

Kinds == {"hourly", "daily", "weekly", "monthly"}

WellFormed(task) == task.time_params \in InRange[task.frequency]

CalcInit ==
    /\ MainInit
    /\ StoreIdle
    /\ ZipIdle
    /\ ref \in RefTimes
    /\ \E kind \in Kinds : \E p \in InRange[kind] \cup Malformed[kind] :
          subject = [name |-> "a", source |-> "/src", destination |-> "/dst",
                     compression |-> TRUE, frequency |-> kind, time_params |-> p,
                     last_run |-> None, next_run |-> None]
    /\ tick_now = None
    /\ fired = 0
    /\ phase = "new"
    /\ shown = update_status(<<>>, 0, StartTime)
    /\ shown_at = None

\* BackupTask.__init__ at the reference time (line 44)
Build ==
    /\ phase = "new"
    /\ subject' = BackupTask(subject, ref)
    /\ phase' = "built"
    /\ UNCHANGED <<ref, tick_now, fired, shown, shown_at>>

\* lines 165-174 on a registry of this one task: now is the tick's now, wall
\* the clock that calculate_next_run() reads
due_check(now, wall) ==
    /\ tick_now' = now
    /\ IF IsDue(subject, now)
       THEN /\ fired' = fired + 1
            /\ subject' = Claim(subject, now, wall)
       ELSE UNCHANGED <<fired, subject>>
    /\ UNCHANGED <<ref, shown, shown_at>>

\* a tick when next_run is reached, or five seconds later
FirstCheck ==
    /\ phase = "built"
    /\ \E late \in {0, SleepSeconds} : \E lag \in {0, 1} :
          due_check(plus(subject.next_run, late), plus(subject.next_run, late + lag))
    /\ phase' = "checked"

\* the due check again, with the same now
SecondCheck ==
    /\ phase = "checked"
    /\ \E lag \in {0, 1} : due_check(tick_now, plus(tick_now, lag))
    /\ phase' = "rechecked"

\* update_status (lines 227-258) on a registry of this one task with no
\* backup running: when the task was built, when its next_run is reached, or
\* five seconds later
ShowStatus ==
    /\ phase = "built"
    /\ \E now \in {ref, subject.next_run, plus(subject.next_run, SleepSeconds)} :
          /\ shown_at' = now
          /\ shown' = update_status(<<subject>>, 0, now)
    /\ phase' = "shown"
    /\ UNCHANGED <<ref, subject, tick_now, fired>>

CalcNext ==
    \/ Build /\ UNCHANGED <<mainVars, storeVars, zipVars>>
    \/ ShowStatus /\ UNCHANGED <<mainVars, storeVars, zipVars>>
    \/ FirstCheck /\ UNCHANGED <<mainVars, storeVars, zipVars>>
    \/ SecondCheck /\ UNCHANGED <<mainVars, storeVars, zipVars>>

SpecCalc == CalcInit /\ [][CalcNext]_vars

\* what the task dialog or an earlier load has handed to BackupTask
StoreDefs ==
    { [name |-> "h", source |-> "/src", destination |-> "/dst", compression |-> TRUE,
       frequency |-> "hourly", time_params |-> IntParam(30)],
      [name |-> "d", source |-> "/src", destination |-> "/dst", compression |-> FALSE,
       frequency |-> "daily", time_params |-> TupleParam(<<10, 30>>)],
      [name |-> "l", source |-> "/src", destination |-> "/dst", compression |-> TRUE,
       frequency |-> "daily", time_params |-> ListParam(<<10, 30>>)],
      [name |-> "w", source |-> "/src", destination |-> "/dst", compression |-> TRUE,
       frequency |-> "weekly", time_params |-> TupleParam(<<0, 10, 30>>)],
      [name |-> "m", source |-> "/src", destination |-> "/dst", compression |-> FALSE,
       frequency |-> "monthly", time_params |-> TupleParam(<<31, 10, 30>>)] }

\* the tasks a registry can hold: built at StartTime and not fired yet, or
\* claimed by a tick whose now was next_run or a microsecond after it
StoreTasks ==
    UNION { LET task == BackupTask(def, StartTime)
                late == [task.next_run EXCEPT !.microsecond = 1]
            IN  {task, Claim(task, task.next_run, task.next_run), Claim(task, late, late)}
          : def \in StoreDefs }

\* the longest registry saved
MaxSaved == 2

\* the times the program is started again at
RestartTimes ==
    {datetime(2024, 1, 1, 10, 30, 0, 0), datetime(2024, 3, 1, 12, 0, 0, 1)}

StoreInit ==
    /\ clock = StartTime
    /\ \E n \in 0..MaxSaved : objs \in [1..n -> StoreTasks] /\ tasks = [k \in 1..n |-> k]
    /\ sched = [s \in Threads |-> IdleThread(StartTime)]
    /\ backups = {}
    /\ running_tasks = 0
    /\ tasks_json = <<>>
    /\ claim_log = {}
    /\ reclaimed = {}
    /\ scheduler_running = TRUE
    /\ log = {}
    /\ CalcIdle
    /\ ZipIdle
    /\ restart_at \in RestartTimes
    /\ reloaded = <<>>
    /\ stage = "run"

\* save_tasks (lines 468-471)
Save ==
    /\ stage = "run"
    /\ tasks_json' = save_tasks(tasks, objs)
    /\ stage' = "saved"
    /\ UNCHANGED <<clock, tasks, objs, sched, backups, running_tasks, claim_log, reclaimed,
                   scheduler_running, log, restart_at, reloaded>>

\* lines 118 and 146 of the new process: tasks = [] and load_tasks()
Restart ==
    /\ stage = "saved"
    /\ reloaded' = load_tasks(tasks_json, restart_at)
    /\ stage' = "reloaded"
    /\ UNCHANGED <<mainVars, restart_at>>

StoreNext ==
    \/ Save /\ UNCHANGED <<calcVars, zipVars>>
    \/ Restart /\ UNCHANGED <<calcVars, zipVars>>

SpecStore == StoreInit /\ [][StoreNext]_vars

\* the most files the source directory holds
MaxFiles == 4

BackupInit ==
    /\ MainInit
    /\ CalcIdle
    /\ StoreIdle
    /\ \E n \in 0..MaxFiles : walk \in [1..n -> BOOLEAN]
    /\ mode \in BOOLEAN
    /\ pos = 1
    /\ written = <<>>
    /\ printed = <<>>
    /\ logged = 0
    /\ bphase = "work"

\* line 391: zipf.write returns for a file that can be read
ZipWrite ==
    /\ bphase = "work" /\ mode /\ pos <= Len(walk) /\ walk[pos]
    /\ written' = Append(written, pos)
    /\ pos' = pos + 1
    /\ UNCHANGED <<walk, mode, printed, logged, bphase>>

\* line 391 and lines 406-407: zipf.write raises for a file that cannot be
\* read; nothing in the loops catches it, the with statement closes the
\* archive and except Exception logs
ZipWriteRaises ==
    /\ bphase = "work" /\ mode /\ pos <= Len(walk) /\ ~walk[pos]
    /\ logged' = logged + 1
    /\ bphase' = "ended"
    /\ UNCHANGED <<walk, mode, pos, written, printed>>

\* lines 396-401 and 441-447: copytree hands each file to copy_with_errors,
\* which copies it or prints that it was skipped
CopyFile ==
    /\ bphase = "work" /\ ~mode /\ pos <= Len(walk)
    /\ IF walk[pos]
       THEN written' = Append(written, pos) /\ printed' = printed
       ELSE printed' = Append(printed, pos) /\ written' = written
    /\ pos' = pos + 1
    /\ UNCHANGED <<walk, mode, logged, bphase>>

\* lines 402-405: the loop is over; os.sync and the end of the try block
Finish ==
    /\ bphase = "work" /\ pos > Len(walk)
    /\ bphase' = "ended"
    /\ UNCHANGED <<walk, mode, pos, written, printed, logged>>

BackupNext ==
    \/ ZipWrite /\ UNCHANGED <<mainVars, calcVars, storeVars>>
    \/ ZipWriteRaises /\ UNCHANGED <<mainVars, calcVars, storeVars>>
    \/ CopyFile /\ UNCHANGED <<mainVars, calcVars, storeVars>>
    \/ Finish /\ UNCHANGED <<mainVars, calcVars, storeVars>>

SpecBackup == BackupInit /\ [][BackupNext]_vars

(***************************************************************************)
(* Properties of the running program, checked under Spec.                  *)
(***************************************************************************)
\* C1: running_tasks equals the number of backups that run_task started and
\* that have not ended; so it is never negative, and 0 when none is running.
C1_InFlightCounter ==
    /\ running_tasks = Cardinality(backups)
    /\ running_tasks >= 0

\* C2: a due occurrence of a task, one value of its next_run, is appended to
\* tasks_to_run by at most one tick.
C2_ClaimedOnce == reclaimed = {}

\* the thread is inside the with block of lines 169-174
Inside(s) == sched[s].pc \in {"check", "claim"}

\* C3: a tick enters its snapshot-and-claim section only when no other tick
\* is inside one, and add/edit/delete change the registry only when no tick is
\* inside one.
C3_MutualExclusion ==
    [][ /\ \A s \in Threads :
             (~Inside(s) /\ Inside(s)') => \A o \in Threads \ {s} : ~Inside(o)
        /\ tasks' # tasks => \A s \in Threads : ~Inside(s) ]_vars

\* C10: when a tick dispatches, its claim loop is over and every task of its
\* tasks_to_run is claimed; every backup in flight is of a task claimed past
\* the now of the tick that started it; and the dispatch itself never waits.
C10_ClaimBeforeDispatch ==
    /\ \A s \in Threads : sched[s].pc = "dispatch" =>
          /\ sched[s].i > Len(sched[s].snapshot)
          /\ \A k \in 1..Len(sched[s].tasks_to_run) :
                LET task == objs[sched[s].tasks_to_run[k]]
                IN  task.last_run # None /\ lt(sched[s].now, task.next_run)
          /\ ENABLED Dispatch(s)
    /\ \A b \in backups :
          objs[b.task].last_run # None /\ lt(b.tick, objs[b.task].next_run)

\* C10 witness: a thread is in a later tick, about to dispatch two claimed
\* tasks or not, while a backup it started in an earlier tick still runs
C10_Witness ==
    \E s \in Threads : \E b \in backups :
        /\ b.by = s
        /\ sched[s].pc = "dispatch"
        /\ lt(b.tick, sched[s].now)

(***************************************************************************)
(* Properties of calculate_next_run and the due check, checked under        *)
(* SpecCalc.                                                               *)
(***************************************************************************)
Built == phase = "built" /\ WellFormed(subject)

\* the candidate of hourly, daily or weekly is the reference time itself
ExactlyAtCandidate ==
    /\ ref.second = 0 /\ ref.microsecond = 0
    /\ LET v == subject.time_params.vals
       IN  CASE subject.frequency = "hourly" -> ref.minute = v[1]
             [] subject.frequency = "daily" -> ref.hour = v[1] /\ ref.minute = v[2]
             [] subject.frequency = "weekly" ->
                    weekday(ref) = v[1] /\ ref.hour = v[2] /\ ref.minute = v[3]
             [] OTHER -> FALSE

Period ==
    CASE subject.frequency = "hourly" -> HOUR
      [] subject.frequency = "daily" -> DAY
      [] OTHER -> 7 * DAY

\* C4: a due check finds the task due at most once for one now: after the
\* check that fired, next_run is strictly after that now, and the second check
\* with the same now does not fire.
C4_SecondCheckDoesNotFire ==
    WellFormed(subject) =>
        /\ fired <= 1
        /\ (phase \in {"checked", "rechecked"} /\ fired = 1) =>
               lt(tick_now, subject.next_run)

C4_Witness == phase = "rechecked" /\ fired = 1 /\ WellFormed(subject)

\* C5: for in-range parameters of each kind the result is strictly after the
\* reference; a candidate equal to the reference gives the reference plus one
\* period for hourly, daily and weekly.
C5_StrictlyAfterReference ==
    Built =>
        /\ lt(ref, subject.next_run)
        /\ ExactlyAtCandidate => subject.next_run = plus(ref, Period)

C5_Witness == Built /\ subject.frequency = "weekly" /\ ExactlyAtCandidate

\* C6: hourly with minute m: the result is strictly after the reference, at
\* minute m and second 0, and at most one hour after the reference; minute 30
\* at 2024-01-01T10:15:00 gives 2024-01-01T10:30:00.
C6_HourlyWithinTheHour ==
    (Built /\ subject.frequency = "hourly") =>
        /\ lt(ref, subject.next_run)
        /\ subject.next_run.minute = subject.time_params.vals[1]
        /\ subject.next_run.second = 0
        /\ subject.next_run.microsecond = 0
        /\ le(subject.next_run, plus(ref, HOUR))
        /\ (ref = datetime(2024, 1, 1, 10, 15, 0, 0) /\ subject.time_params = IntParam(30))
              => subject.next_run = datetime(2024, 1, 1, 10, 30, 0, 0)

C6_Witness ==
    /\ Built /\ subject.frequency = "hourly"
    /\ ref = datetime(2024, 1, 1, 10, 15, 0, 0)
    /\ subject.time_params = IntParam(30)

\* the month after the reference's month, and its year
MonthAfter == IF ref.month = 12 THEN 1 ELSE ref.month + 1

YearOfMonthAfter == IF ref.month = 12 THEN ref.year + 1 ELSE ref.year

\* C7: monthly with day d: the result is in the month after the reference's
\* month, on day min(d, length of that month), at hour:minute:00; day 31 at
\* 2024-01-20 gives 2024-02-29T00:00:00.
C7_MonthlyNextMonth ==
    (Built /\ subject.frequency = "monthly") =>
        LET v == subject.time_params.vals
            len == monthrange(YearOfMonthAfter, MonthAfter)
        IN  subject.next_run =
                datetime(YearOfMonthAfter, MonthAfter, IF v[1] < len THEN v[1] ELSE len,
                         v[2], v[3], 0, 0)

C7_Witness ==
    /\ Built /\ subject.frequency = "monthly"
    /\ ref = datetime(2024, 1, 20, 0, 0, 0, 0)
    /\ subject.time_params = TupleParam(<<31, 0, 0>>)
    /\ subject.next_run = datetime(2024, 2, 29, 0, 0, 0, 0)

\* C8: monthly with day 31 and a reference in April: April 30 at hour:minute
\* while that is still after the reference, a later occurrence once it has
\* passed.
C8_AprilClamp ==
    (Built /\ subject.frequency = "monthly" /\ subject.time_params.vals[1] = 31
           /\ ref.month = 4) =>
        LET v == subject.time_params.vals
            clamped == datetime(ref.year, 4, 30, v[2], v[3], 0, 0)
        IN  IF lt(ref, clamped) THEN subject.next_run = clamped
            ELSE lt(clamped, subject.next_run)

\* C9: malformed parameters of any kind give exactly the reference plus five
\* minutes.
C9_MalformedFallsBack ==
    (phase = "built" /\ subject.time_params \in Malformed[subject.frequency]) =>
        subject.next_run = plus(ref, 5 * 60)

\* C11: a task that is due while a backup of it is still running is appended to
\* tasks_to_run like any other due task, and every run_task of a tick that
\* returns adds one more backup to those in flight: the second execution is
\* neither skipped nor held back.
C11_SecondExecutionDispatched ==
    [][\A s \in Threads :
          LET r == sched[s]
          IN  /\ ( /\ r.pc = "check"
                   /\ sched'[s] # r
                   /\ IsDue(objs[r.snapshot[r.i]], r.now)
                   /\ \E b \in backups : b.task = r.snapshot[r.i] )
                 => /\ sched'[s].pc = "claim"
                    /\ sched'[s].tasks_to_run = Append(r.tasks_to_run, r.snapshot[r.i])
              /\ ( /\ r.pc = "dispatch"
                   /\ sched'[s] # r
                   /\ sched'[s].pc # "backoff" )
                 => /\ [task |-> r.tasks_to_run[r.j], by |-> s, tick |-> r.now] \notin backups
                    /\ backups' = backups \cup
                          {[task |-> r.tasks_to_run[r.j], by |-> s, tick |-> r.now]}
      ]_vars

\* two backups of one task in flight, started by the ticks of two due times
C11_Witness ==
    \E b1 \in backups, b2 \in backups :
        /\ b1.task = b2.task
        /\ lt(b1.tick, b2.tick)
        /\ objs[b2.task].last_run = b2.tick

\* C12: an error raised in a tick does not end the loop: the thread logs it and
\* sleeps BackoffSeconds, leaves that sleep again, and returns from
\* scheduler_loop only with scheduler_running cleared.
C12_TickErrorDoesNotEndLoop ==
    /\ [](\A s \in Threads : sched[s].pc = "exited" => ~scheduler_running)
    /\ [][\A s \in Threads :
            (\E l \in log' \ log : l[1] = "scheduler" /\ l[2] = s)
               => /\ sched'[s].pc = "backoff"
                  /\ sched'[s].wake = plus(clock, BackoffSeconds)
            ]_vars
    /\ [][\A s \in Threads :
            (sched[s].pc = "backoff" /\ sched'[s].pc # "backoff" /\ scheduler_running)
               => sched'[s] = Continue([sched[s] EXCEPT !.now = clock, !.snapshot = tasks,
                                                        !.i = 1])
            ]_vars
    /\ \A s \in Threads : (sched[s].pc = "backoff") ~> (sched[s].pc # "backoff")

\* a thread in a tick of its own after the tick whose error it logged
C12_Witness ==
    \E s \in Threads :
        /\ \E l \in log : l[1] = "scheduler" /\ l[2] = s
        /\ sched[s].pc \in {"check", "claim", "dispatch"}
        /\ scheduler_running

\* the BackupTask objects of the registry, in its order
Registry == [k \in 1..Len(tasks) |-> objs[tasks[k]]]

\* C13: the status update_status derives is "backup in progress" whenever a
\* backup is in flight, else "no active tasks" for an empty registry and
\* "running in background" for any other.
C13_StatusFollowsBackups ==
    update_status(Registry, running_tasks, clock).status_var =
        IF backups # {} THEN "orange"
        ELSE IF tasks = <<>> THEN "red"
        ELSE "green"

\* C14: with the nearest next_run after now the countdown's hours and minutes
\* add up to the whole minutes from now to it, however far away it is; with
\* it at or before now the display is "now".
C14_CountdownIsTimeLeft ==
    phase = "shown" =>
        LET us    == subject.next_run.microsecond - shown_at.microsecond
            whole == total_seconds(subject.next_run) - total_seconds(shown_at)
                        - (IF us < 0 THEN 1 ELSE 0)
        IN  IF lt(shown_at, subject.next_run)
            THEN /\ shown.next_task_var.text = "in"
                 /\ shown.next_task_var.hours * 60 + shown.next_task_var.minutes
                       = whole \div 60
            ELSE shown.next_task_var.text = "now"

\* C15: every step that changes what a save of the registry would write (an
\* add, an edit, a delete, or a claim setting last_run) leaves tasks.json
\* equal to the records of the registry as it then is.
C15_PersistedAfterMutation ==
    [][save_tasks(tasks', objs') # save_tasks(tasks, objs)
          => tasks_json' = save_tasks(tasks', objs')]_vars

\* the fields a save writes are those of the reloaded task; time_params by
\* the Python values, or by their items
SameButParams(a, b) ==
    /\ a.name = b.name /\ a.source = b.source /\ a.destination = b.destination
    /\ a.compression = b.compression /\ a.frequency = b.frequency
    /\ a.last_run = b.last_run

\* next_run of a reloaded task is computed at the reload time and is after it
Recomputed(b) ==
    /\ b.next_run = calculate_next_run(b, restart_at)
    /\ lt(restart_at, b.next_run)

\* C16 as stated: a save followed by a load into an empty registry gives the
\* same tasks in the same order, each with identical name, source,
\* destination, compression, frequency, time_params and last_run, and with a
\* next_run recomputed from the reload time and after it.
C16_RoundTripIdentical ==
    stage = "reloaded" =>
        /\ Len(reloaded) = Len(tasks)
        /\ \A k \in 1..Len(tasks) :
              /\ SameButParams(Registry[k], reloaded[k])
              /\ reloaded[k].time_params = Registry[k].time_params
              /\ Recomputed(reloaded[k])

\* C16 amended: as stated, except that time_params comes back with the same
\* items in the same order, an int as an int and a tuple or a list as a list.
C16_RoundTripItems ==
    stage = "reloaded" =>
        /\ Len(reloaded) = Len(tasks)
        /\ \A k \in 1..Len(tasks) :
              /\ SameButParams(Registry[k], reloaded[k])
              /\ reloaded[k].time_params =
                    IF Registry[k].time_params.scalar THEN Registry[k].time_params
                    ELSE ListParam(Registry[k].time_params.vals)
              /\ Recomputed(reloaded[k])

\* two tasks reloaded, the first with a last_run that has microseconds, the
\* second a task the dialog made with a tuple
C16_Witness ==
    /\ stage = "reloaded"
    /\ Len(reloaded) = 2
    /\ reloaded[1].last_run # None /\ reloaded[1].last_run.microsecond = 1
    /\ Registry[2].time_params = TupleParam(<<10, 30>>)
    /\ reloaded[1].name # reloaded[2].name

\* the places in walk of the files that are (or are not) readable, in order
RECURSIVE Places(_, _)
Places(readable, k) ==
    IF k > Len(walk) THEN <<>>
    ELSE IF walk[k] = readable THEN <<k>> \o Places(readable, k + 1)
    ELSE Places(readable, k + 1)

\* C17: a Compressed backup of a source with unreadable files is not aborted:
\* when it ends the archive holds exactly the readable files, wherever they
\* come in the walk, one item-level error was recorded for each unreadable
\* file, and no task-level error was logged.
C17_UnreadableFilesSkipped ==
    (bphase = "ended" /\ mode) =>
        /\ written = Places(TRUE, 1)
        /\ printed = Places(FALSE, 1)
        /\ logged = 0

\* C18: when a backup ends in a whole-task failure the registry keeps its
\* tasks at their positions and last_run and next_run stay as the claim set
\* them; and once a backup of a task has failed, no backup of that task is
\* started by a tick whose now is before the next_run the task had then.
C18_FailureContained ==
    [][/\ \A b \in backups \ backups' :
             Fails(objs[b.task]) => tasks' = tasks /\ objs' = objs
       /\ \A nb \in backups' \ backups : \A l \in log :
             (l[1] = "backup" /\ l[2] = nb.task) => le(l[3], nb.tick)
      ]_vars

\* C19: once quit_app has cleared scheduler_running a sleeping scheduler
\* thread does nothing but return, so no tick starts and nothing is claimed or
\* dispatched by one; every scheduler thread returns in the end; and the step
\* that clears the flag leaves the backups in flight as they are.
C19_CooperativeStop ==
    /\ [][\A s \in Threads :
            (~scheduler_running /\ Asleep(s) /\ sched'[s] # sched[s])
               => sched'[s].pc = "exited"
            ]_vars
    /\ [][(scheduler_running /\ ~scheduler_running')
            => backups' = backups /\ running_tasks' = running_tasks]_vars
    /\ (~scheduler_running) ~> (\A s \in Threads : sched[s].pc = "exited")

\* both loops have returned after quit_app and a backup is still running
C19_Witness ==
    /\ ~scheduler_running
    /\ \A s \in Threads : sched[s].pc = "exited"
    /\ backups # {}

\* C20: at most one thread is running scheduler_loop at any time.
C20_OneSchedulerLoop ==
    Cardinality({s \in Threads : sched[s].pc # "exited"}) <= 1

\* the BackupTask objects BackupApp.tasks refers to
InRegistry == {tasks[k] : k \in 1..Len(tasks)}

\* C21: a tick claims a task only while the registry holds it, and a backup is
\* started only for a task the registry holds: nothing is claimed or
\* dispatched for an object that delete_task or edit_task has taken out.
C21_NoStaleTask ==
    [][/\ \A s \in Threads :
             (sched[s].pc = "claim" /\ sched'[s] # sched[s])
                => sched[s].snapshot[sched[s].i] \in InRegistry
       /\ \A nb \in backups' \ backups : nb.task \in InRegistry
      ]_vars

\* C22: a committed edit leaves the registry with as many tasks in the same
\* order; the task at the edited row keeps the last_run it had, whether a
\* claim set it before or while the dialog was open, and gets a next_run
\* computed from the edited recurrence.
C22_EditKeepsLastRun ==
    [][(Len(tasks') = Len(tasks) /\ tasks' # tasks)
          => \A k \in 1..Len(tasks) :
                IF tasks'[k] = tasks[k]
                THEN objs'[tasks'[k]] = objs[tasks[k]]
                ELSE /\ objs'[tasks'[k]].last_run = objs[tasks[k]].last_run
                     /\ objs'[tasks'[k]].next_run =
                           calculate_next_run(objs'[tasks'[k]], clock)
      ]_vars

\* C23: a tick that has claimed tasks starts a backup for each of them, in the
\* order of tasks_to_run, before it ends: every step of its dispatch loop
\* starts the backup of the entry it is at, and the loop is left only with the
\* last entry started.
C23_ClaimedIsDispatched ==
    [][\A s \in Threads :
          LET r == sched[s]
          IN  (r.pc = "dispatch" /\ sched'[s] # r)
                 => /\ backups' = backups \cup
                          {[task |-> r.tasks_to_run[r.j], by |-> s, tick |-> r.now]}
                    /\ IF r.j < Len(r.tasks_to_run)
                       THEN sched'[s].pc = "dispatch" /\ sched'[s].j = r.j + 1
                       ELSE sched'[s].pc = "sleep"
      ]_vars

\* the wall-clock instants a tick can read as its now on the timeline
TickTimes == {Timeline[k] : k \in 1..Len(Timeline)}

Settings(task) ==
    [name |-> task.name, source |-> task.source, destination |-> task.destination,
     compression |-> task.compression, frequency |-> task.frequency,
     time_params |-> task.time_params]

\* C25: a step of a scheduler tick leaves the registry as it is and leaves
\* every task's name, source, destination, compression, frequency and
\* time_params as they are; it changes last_run and next_run of no task but
\* the one it is claiming, and a task whose next_run is strictly after the
\* tick's now when the tick reads it is passed over, not claimed.
C25_TickChangesOnlyClaimed ==
    [][\A s \in Threads :
          LET r == sched[s]
          IN  sched'[s] # r
                 => /\ tasks' = tasks
                    /\ Len(objs') = Len(objs)
                    /\ \A t \in 1..Len(objs) :
                          /\ Settings(objs'[t]) = Settings(objs[t])
                          /\ objs'[t] # objs[t]
                                => r.pc = "claim" /\ r.snapshot[r.i] = t
                    /\ (r.pc = "check" /\ lt(r.now, objs[r.snapshot[r.i]].next_run))
                          => /\ sched'[s].pc # "claim"
                             /\ sched'[s].tasks_to_run = r.tasks_to_run
                             /\ objs' = objs
      ]_vars

\* a tick that claimed one task of its snapshot and passed over another whose
\* next_run is after the tick's now and which has never run
C25_Witness ==
    \E s \in Threads :
       /\ sched[s].pc = "dispatch"
       /\ \E k \in 1..Len(sched[s].snapshot) :
             LET t == sched[s].snapshot[k]
             IN  /\ \A j \in 1..Len(sched[s].tasks_to_run) : sched[s].tasks_to_run[j] # t
                 /\ lt(sched[s].now, objs[t].next_run)
                 /\ objs[t].last_run = None

====
